---- MODULE Spec2Model ----
(***************************************************************************)
(* Fixed-step physics of the voxel game: Physics.update and its collision  *)
(* pipeline (broad phase, narrow phase, resolution) acting on the Player   *)
(* and reading the World grid.                                             *)
(*                                                                         *)
(* Numbers.  The program computes in IEEE doubles.  Here a length or a     *)
(* velocity component v is the integer v * Scale and a time t is the       *)
(* integer t * TimeScale; with Scale = 1000 and TimeScale = 500 every product the  *)
(* program forms from its constants (gravity * timestep = 0.128,           *)
(* maxSpeed * timestep = 0.04) is an integer, so sums, differences and     *)
(* comparisons are exact.  Math.sqrt and the division of normalize() are   *)
(* the two operations that round: they round to the nearest representable  *)
(* value, as the doubles do.                                               *)
(***************************************************************************)
EXTENDS Integers, Sequences, FiniteSets, TLC

Scale == 1000
TimeScale == 500

\* ---------------------------------------------------------------- bounds
MaxSteps == 2       \* fixed steps run in one behaviour
MaxDt == 5          \* largest real-time delta handed to update (time units)

\* ------------------------------------------------------ program constants
gravity == 32
simulationRate == 250
timestep == TimeScale \div simulationRate
maxSpeed == 10

\* Actor shape: the cylinder of the physics core (0.4 and 1.8).
radius == 400
height == 1800

emptyId == 0
grassId == 1

\* ------------------------------------------------------------ arithmetic
Abs(a) == IF a < 0 THEN -a ELSE a
Min(a, b) == IF a < b THEN a ELSE b
Max(a, b) == IF a > b THEN a ELSE b
Sign(a) == IF a > 0 THEN 1 ELSE IF a < 0 THEN -1 ELSE 0

\* Math.floor / Math.ceil of a length, as a cell coordinate.
Floor(a) == a \div Scale
Ceil(a) == -((-a) \div Scale)

\* a / b rounded to the nearest integer (b > 0).
RoundDiv(a, b) == (2 * a + b) \div (2 * b)

\* Math.sqrt: the representable value nearest to the root of n.
\* r is the nearest integer to the root of n > 0 iff r*r - r < n <= r*r + r;
\* the search halves the interval lo..hi that holds it.
RECURSIVE SqrtIn(_, _, _)
SqrtIn(n, lo, hi) ==
  IF lo = hi THEN lo
  ELSE LET mid == (lo + hi) \div 2
       IN  IF n <= mid * mid + mid THEN SqrtIn(n, lo, mid) ELSE SqrtIn(n, mid + 1, hi)

Sqrt(n) == IF n = 0 THEN 0 ELSE SqrtIn(n, 1, 4 * Scale)

Vec(a, b, c) == [x |-> a, y |-> b, z |-> c]
VAdd(u, v) == Vec(u.x + v.x, u.y + v.y, u.z + v.z)
\* A direction (a normal) has components in units of 1 / Scale as well.
\* THREE.Vector3.multiplyScalar by a length s (a fixed-point number).
VScale(u, s) ==
  Vec(RoundDiv(u.x * s, Scale), RoundDiv(u.y * s, Scale), RoundDiv(u.z * s, Scale))
VNeg(u) == Vec(-u.x, -u.y, -u.z)
\* THREE.Vector3.dot of two fixed-point vectors.
VDot(u, v) == RoundDiv(u.x * v.x + u.y * v.y + u.z * v.z, Scale)
\* THREE.Vector3.length and normalize: divideScalar(length() || 1).
VLength(u) == Sqrt(u.x * u.x + u.y * u.y + u.z * u.z)
Normalize(u) ==
  LET len == VLength(u)
      d == IF len = 0 THEN Scale ELSE len
  IN  Vec(RoundDiv(u.x * Scale, d), RoundDiv(u.y * Scale, d), RoundDiv(u.z * Scale, d))

\* ----------------------------------------------------------------- world
\* World.inBounds
inBounds(size, x, y, z) ==
  /\ x >= 0 /\ x < size.width
  /\ y >= 0 /\ y < size.height
  /\ z >= 0 /\ z < size.width

\* World.getBlock: the block, or null.  null is the empty sequence and a
\* block b is <<b>>.
getBlock(data, size, x, y, z) ==
  IF inBounds(size, x, y, z) THEN <<data[<<x, y, z>>]>> ELSE <<>>

\* ----------------------------------------------------------- broad phase
\* Extents whose upper ends are floored like the lower ones.
ExtentsFloorMax(p) ==
  [x |-> [min |-> Floor(p.position.x - radius), max |-> Floor(p.position.x + radius)],
   y |-> [min |-> Floor(p.position.y - height), max |-> Floor(p.position.y)],
   z |-> [min |-> Floor(p.position.z - radius), max |-> Floor(p.position.z + radius)]]

\* Extents that take position.y for the feet and reach up from there.
ExtentsFeetUp(p) ==
  [x |-> [min |-> Floor(p.position.x - radius), max |-> Ceil(p.position.x + radius)],
   y |-> [min |-> Floor(p.position.y), max |-> Ceil(p.position.y + height)],
   z |-> [min |-> Floor(p.position.z - radius), max |-> Ceil(p.position.z + radius)]]

\* The extents of the player.
Extents(p) ==
  [x |-> [min |-> Floor(p.position.x - radius), max |-> Ceil(p.position.x + radius)],
   y |-> [min |-> Floor(p.position.y - height), max |-> Ceil(p.position.y)],
   z |-> [min |-> Floor(p.position.z - radius), max |-> Ceil(p.position.z + radius)]]

\* The cells of the three nested loops, in the order the loops visit them.
LoopCells(e) ==
  LET nx == e.x.max - e.x.min + 1
      ny == e.y.max - e.y.min + 1
      nz == e.z.max - e.z.min + 1
  IN  [i \in 1..(nx * ny * nz) |->
         Vec(e.x.min + ((i - 1) \div (ny * nz)),
             e.y.min + (((i - 1) \div nz) % ny),
             e.z.min + ((i - 1) % nz))]

\* A test that takes every block of the grid, the empty block too.
IsCandidateAnyBlock(data, size, c) ==
  getBlock(data, size, c.x, c.y, c.z) # <<>>

\* The test of one cell: a block is there and it is not the empty block.
IsCandidate(data, size, c) ==
  LET block == getBlock(data, size, c.x, c.y, c.z)
  IN  block # <<>> /\ block[1].id # emptyId

broadPhase(p, data, size) ==
  SelectSeq(LoopCells(Extents(p)), LAMBDA c : IsCandidate(data, size, c))

\* ---------------------------------------------------------- narrow phase
\* The point of the block closest to the centre of the bounding cylinder.
ClosestPoint(block, p) ==
  Vec(Max(block.x * Scale - Scale \div 2, Min(p.position.x, block.x * Scale + Scale \div 2)),
      Max(block.y * Scale - Scale \div 2,
          Min(p.position.y - height \div 2, block.y * Scale + Scale \div 2)),
      Max(block.z * Scale - Scale \div 2, Min(p.position.z, block.z * Scale + Scale \div 2)))

pointInPlayerBoundingCylinder(pt, p) ==
  LET dx == pt.x - p.position.x
      dy == pt.y - (p.position.y - height \div 2)
      dz == pt.z - p.position.z
      r_sq == dx * dx + dz * dz
  IN  Abs(dy) < height \div 2 /\ r_sq < radius * radius

\* A loop body that takes the vertical axis when the two overlaps are equal.
CollideTieVertical(block, p) ==
  LET closestPoint == ClosestPoint(block, p)
      dx == closestPoint.x - p.position.x
      dy == closestPoint.y - (p.position.y - height \div 2)
      dz == closestPoint.z - p.position.z
      overlapY == height \div 2 - Abs(dy)
      overlapXZ == radius - Sqrt(dx * dx + dz * dz)
  IN  IF overlapY <= overlapXZ
      THEN [block |-> block, contactPoint |-> closestPoint,
            normal |-> Vec(0, -Sign(dy) * Scale, 0), overlap |-> overlapY, ground |-> TRUE]
      ELSE [block |-> block, contactPoint |-> closestPoint,
            normal |-> Normalize(Vec(-dx, 0, -dz)), overlap |-> overlapXZ,
            ground |-> FALSE]

\* The body of the loop for one block that is inside the cylinder: the
\* record pushed, and whether this branch sets player.onGround.
Collide(block, p) ==
  LET closestPoint == ClosestPoint(block, p)
      dx == closestPoint.x - p.position.x
      dy == closestPoint.y - (p.position.y - height \div 2)
      dz == closestPoint.z - p.position.z
      overlapY == height \div 2 - Abs(dy)
      overlapXZ == radius - Sqrt(dx * dx + dz * dz)
  IN  IF overlapY < overlapXZ
      THEN [block |-> block, contactPoint |-> closestPoint,
            normal |-> Vec(0, -Sign(dy) * Scale, 0), overlap |-> overlapY, ground |-> TRUE]
      ELSE [block |-> block, contactPoint |-> closestPoint,
            normal |-> Normalize(Vec(-dx, 0, -dz)), overlap |-> overlapXZ,
            ground |-> FALSE]

\* narrowPhase over the candidates from index i on, with the collisions
\* pushed so far and the player as mutated so far (onGround).
RECURSIVE NarrowLoop(_, _, _, _)
NarrowLoop(candidates, i, collisions, p) ==
  IF i > Len(candidates) THEN [collisions |-> collisions, player |-> p]
  ELSE LET block == candidates[i]
       IN  IF pointInPlayerBoundingCylinder(ClosestPoint(block, p), p)
           THEN LET c == Collide(block, p)
                IN  NarrowLoop(candidates, i + 1,
                      Append(collisions,
                        [block |-> c.block, contactPoint |-> c.contactPoint,
                         normal |-> c.normal, overlap |-> c.overlap]),
                      IF c.ground THEN [p EXCEPT !.onGround = TRUE] ELSE p)
           ELSE NarrowLoop(candidates, i + 1, collisions, p)

narrowPhase(candidates, p) == NarrowLoop(candidates, 1, <<>>, p)

\* ------------------------------------------------------------ resolution
\* Position of c in a sorted prefix: Array.prototype.sort with the
\* comparator of resolveCollisions is stable, so c goes after every
\* element whose overlap is not greater.
RECURSIVE InsertSorted(_, _)
InsertSorted(sorted, c) ==
  IF sorted = <<>> THEN <<c>>
  ELSE IF c.overlap < sorted[Len(sorted)].overlap
       THEN Append(InsertSorted(SubSeq(sorted, 1, Len(sorted) - 1), c),
                   sorted[Len(sorted)])
       ELSE Append(sorted, c)

RECURSIVE SortFrom(_, _, _)
SortFrom(collisions, i, sorted) ==
  IF i > Len(collisions) THEN sorted
  ELSE SortFrom(collisions, i + 1, InsertSorted(sorted, collisions[i]))

\* A sort that is ascending but puts equal overlaps in reverse order.
SortByOverlapUnstable(collisions) ==
  SortFrom([i \in 1..Len(collisions) |-> collisions[Len(collisions) + 1 - i]], 1, <<>>)

SortByOverlap(collisions) == SortFrom(collisions, 1, <<>>)

\* Player.worldVelocity and Player.applyWorldDeltaVelocity: the actor's
\* velocity is its world-space linear velocity.
worldVelocity(p) == p.velocity
applyWorldDeltaVelocity(p, dv) == [p EXCEPT !.velocity = VAdd(p.velocity, dv)]

\* A loop body that reflects the velocity along the normal (a bounce).
ResolveOneBounce(collision, p) ==
  LET deltaPosition == VScale(collision.normal, collision.overlap)
      moved == [p EXCEPT !.position = VAdd(p.position, deltaPosition)]
      magnitude == VDot(worldVelocity(moved), collision.normal)
      velocityAdjustment == VScale(collision.normal, 2 * magnitude)
  IN  applyWorldDeltaVelocity(moved, VNeg(velocityAdjustment))

\* The body of the loop of resolveCollisions for one collision.
ResolveOne(collision, p) ==
  LET deltaPosition == VScale(collision.normal, collision.overlap)
      moved == [p EXCEPT !.position = VAdd(p.position, deltaPosition)]
      magnitude == VDot(worldVelocity(moved), collision.normal)
      velocityAdjustment == VScale(collision.normal, magnitude)
  IN  applyWorldDeltaVelocity(moved, VNeg(velocityAdjustment))

RECURSIVE ResolveLoop(_, _, _)
ResolveLoop(collisions, i, p) ==
  IF i > Len(collisions) THEN p
  ELSE ResolveLoop(collisions, i + 1, ResolveOne(collisions[i], p))

resolveCollisions(collisions, p) == ResolveLoop(SortByOverlap(collisions), 1, p)

\* The player as the loop of resolveCollisions leaves it after each
\* collision of the sorted array, from index i on; trail ends with the
\* player before collision i.
RECURSIVE ResolveTrail(_, _, _)
ResolveTrail(sorted, i, trail) ==
  IF i > Len(sorted) THEN trail
  ELSE ResolveTrail(sorted, i + 1,
                    Append(trail, ResolveOne(sorted[i], trail[Len(trail)])))

\* ------------------------------------------------------------- detection
\* A pass that does not clear onGround first.
detectCollisionsKeepGround(p, data, size) ==
  LET candidates == broadPhase(p, data, size)
      narrow == narrowPhase(candidates, p)
  IN  [candidates |-> candidates,
       collisions |-> narrow.collisions,
       order |-> SortByOverlap(narrow.collisions),
       trail |-> ResolveTrail(SortByOverlap(narrow.collisions), 1, <<narrow.player>>),
       player |-> IF Len(narrow.collisions) > 0
                  THEN resolveCollisions(narrow.collisions, narrow.player)
                  ELSE narrow.player]

\* detectCollisions: the player after the pass, with the candidates and
\* the collisions the pass computed, the order in which resolveCollisions
\* went through them and the player after each of them.
detectCollisions(p, data, size) ==
  LET cleared == [p EXCEPT !.onGround = FALSE]
      candidates == broadPhase(cleared, data, size)
      narrow == narrowPhase(candidates, cleared)
  IN  [candidates |-> candidates,
       collisions |-> narrow.collisions,
       order |-> SortByOverlap(narrow.collisions),
       trail |-> ResolveTrail(SortByOverlap(narrow.collisions), 1, <<narrow.player>>),
       player |-> IF Len(narrow.collisions) > 0
                  THEN resolveCollisions(narrow.collisions, narrow.player)
                  ELSE narrow.player]

\* ---------------------------------------------------------------- player
\* PointerLockControls.moveRight / moveForward with the camera as the
\* constructor leaves it: right (column 0 of the camera matrix) is +x and
\* forward (up x right) is -z.
moveRight(p, d) == [p EXCEPT !.position = VAdd(p.position, Vec(d, 0, 0))]
moveForward(p, d) == [p EXCEPT !.position = VAdd(p.position, Vec(0, 0, -d))]

\* Player.applyInputs(dt), dt in time units.
applyInputs(p, dt) ==
  IF p.isLocked
  THEN LET v == [p EXCEPT !.velocity.x = p.input.x, !.velocity.z = p.input.z]
       IN  moveForward(moveRight(v, RoundDiv(v.velocity.x * dt, TimeScale)),
                       RoundDiv(v.velocity.z * dt, TimeScale))
  ELSE p

\* Gravity that is switched off while the actor is on the ground.
applyGravityUnlessGrounded(p) ==
  IF p.onGround THEN p
  ELSE [p EXCEPT !.velocity.y = p.velocity.y - RoundDiv(gravity * Scale * timestep, TimeScale)]

\* The gravity line of the loop of Physics.update.
applyGravity(p) ==
  [p EXCEPT !.velocity.y = p.velocity.y - RoundDiv(gravity * Scale * timestep, TimeScale)]

\* One iteration of the loop of Physics.update, on the player.
FixedStep(p, data, size) ==
  detectCollisions(applyInputs(applyGravity(p), timestep), data, size).player

\* A loop that runs only while more than one timestep is left.
LoopTestStrict(acc) == acc > timestep

\* The test of the loop of Physics.update.
LoopTest(acc) == acc >= timestep

\* Physics.update as a whole, on a simulation [player, accumulator] that
\* also counts its fixed steps and the calls and deltas it was given.
RECURSIVE UpdateLoop(_, _, _)
UpdateLoop(sim, data, size) ==
  IF LoopTest(sim.accumulator)
  THEN UpdateLoop([player |-> FixedStep(sim.player, data, size),
                   accumulator |-> sim.accumulator - timestep,
                   steps |-> sim.steps + 1,
                   elapsed |-> sim.elapsed, calls |-> sim.calls], data, size)
  ELSE sim

\* An update that throws away what is left of the delta after its steps.
updateDropRemainder(sim, dt, data, size) ==
  [UpdateLoop([sim EXCEPT !.accumulator = sim.accumulator + dt,
                          !.elapsed = sim.elapsed + dt,
                          !.calls = sim.calls + 1], data, size)
     EXCEPT !.accumulator = 0]

update(sim, dt, data, size) ==
  UpdateLoop([sim EXCEPT !.accumulator = sim.accumulator + dt,
                         !.elapsed = sim.elapsed + dt,
                         !.calls = sim.calls + 1], data, size)

\* ----------------------------------------------------------------- state
VARIABLES
  player,       \* Player: position, velocity, input, controls.isLocked, onGround
  accumulator,  \* Physics.accumulator
  data,         \* World.data: cell -> block
  size,         \* World.size
  pc,           \* where the thread is: "idle", or a line of the loop of update
  steps,        \* fixed steps run so far
  elapsed,      \* sum of the deltas handed to update so far
  calls,        \* calls of update counted when two runs are compared
  call,         \* the running call of update: accumulator + dt at entry, steps so far
  pass,         \* the last detection pass: player at entry, candidates, collisions,
                \* the collisions in the order resolved, the player after each
  twin          \* a second simulation of the same world, for comparing two runs

vars == <<player, accumulator, data, size, pc, steps, elapsed, calls, call, pass, twin>>

\* World size of the model (the program's default is 64 x 32).
WorldWidth == 3
WorldHeight == 3

Cells(sz) == (0..(sz.width - 1)) \X (0..(sz.height - 1)) \X (0..(sz.width - 1))

\* Grids: a floor block under the middle column and two wall blocks that
\* meet in a corner.
FloorCell == <<1, 0, 1>>
WallX == <<2, 1, 1>>
WallZ == <<1, 1, 2>>
Grids == {{}, {FloorCell}, {WallX, WallZ}, {FloorCell, WallX, WallZ}}

\* World.initializeTerrain, then the blocks of one grid set by setBlockId.
GridData(sz, occupied) ==
  [c \in Cells(sz) |->
     [id |-> IF c \in occupied THEN grassId ELSE emptyId, instanceId |-> 0]]

\* Where the actor may stand when the model starts: next to and inside the
\* walls (free space in a grid without them), on and in the floor, with
\* the head in the underside of a wall block, and outside the world.
StartX == {1101, 2000, -100, -600}
StartY == {2300, 2290, 3299, 510}
StartZ == {1101, 480}

NoCall == [total |-> 0, steps |-> 0]
NoPass ==
  [ran |-> FALSE, before |-> <<>>, candidates |-> <<>>, collisions |-> <<>>,
   order |-> <<>>, trail |-> <<>>]

\* The Player constructor, at a position.
NewPlayer(pos) ==
  [position |-> pos, velocity |-> Vec(0, 0, 0), input |-> Vec(0, 0, 0),
   isLocked |-> FALSE, onGround |-> FALSE]

InitWorld ==
  /\ size = [width |-> WorldWidth, height |-> WorldHeight]
  /\ \E g \in Grids : data = GridData(size, g)

InitRest ==
  /\ accumulator = 0
  /\ pc = "idle"
  /\ steps = 0
  /\ elapsed = 0
  /\ call = NoCall
  /\ pass = NoPass
  /\ calls = 0
  /\ twin = [player |-> player, accumulator |-> 0, steps |-> 0, elapsed |-> 0, calls |-> 0]

Init ==
  /\ InitWorld
  /\ \E x \in StartX, y \in StartY, z \in StartZ : player = NewPlayer(Vec(x, y, z))
  /\ InitRest

\* --------------------------------------------------------------- actions
\* Physics.update(dt, player, world): entry, accumulator += dt.
Update(dt) ==
  /\ pc = "idle"
  /\ steps + ((accumulator + dt) \div timestep) <= MaxSteps
  /\ accumulator' = accumulator + dt
  /\ elapsed' = elapsed + dt
  /\ call' = [total |-> accumulator + dt, steps |-> 0]
  /\ pc' = "loop"
  /\ UNCHANGED <<player, data, size, steps, calls, pass, twin>>

\* while (accumulator >= timestep): velocity.y -= gravity * timestep
Gravity ==
  /\ pc = "loop"
  /\ LoopTest(accumulator)
  /\ player' = applyGravity(player)
  /\ pc' = "inputs"
  /\ UNCHANGED <<accumulator, data, size, steps, elapsed, calls, call, pass, twin>>

\* player.applyInputs(timestep)
ApplyInputs ==
  /\ pc = "inputs"
  /\ player' = applyInputs(player, timestep)
  /\ pc' = "detect"
  /\ UNCHANGED <<accumulator, data, size, steps, elapsed, calls, call, pass, twin>>

\* A detection pass that digs out the blocks the actor collided with.
DetectCollisionsDigs ==
  /\ pc = "detect"
  /\ \E d \in {detectCollisions(player, data, size)} :
         /\ player' = d.player
         /\ pass' = [ran |-> TRUE, before |-> <<player>>,
                     candidates |-> d.candidates, collisions |-> d.collisions,
                     order |-> d.order, trail |-> d.trail]
         /\ data' = [c \in DOMAIN data |->
                       IF \E k \in 1..Len(d.collisions) :
                            c = <<d.collisions[k].block.x, d.collisions[k].block.y,
                                  d.collisions[k].block.z>>
                       THEN [data[c] EXCEPT !.id = emptyId] ELSE data[c]]
  /\ pc' = "sub"
  /\ UNCHANGED <<accumulator, size, steps, elapsed, calls, call, twin>>

\* this.detectCollisions(player, world)
DetectCollisions ==
  /\ pc = "detect"
  /\ \E d \in {detectCollisions(player, data, size)} :
         /\ player' = d.player
         /\ pass' = [ran |-> TRUE, before |-> <<player>>,
                     candidates |-> d.candidates, collisions |-> d.collisions,
                     order |-> d.order, trail |-> d.trail]
  /\ pc' = "sub"
  /\ UNCHANGED <<accumulator, data, size, steps, elapsed, calls, call, twin>>

\* accumulator -= timestep, and back to the loop test
AccumulatorSub ==
  /\ pc = "sub"
  /\ accumulator' = accumulator - timestep
  /\ steps' = steps + 1
  /\ call' = [call EXCEPT !.steps = call.steps + 1]
  /\ pass' = NoPass
  /\ pc' = "loop"
  /\ UNCHANGED <<player, data, size, elapsed, calls, twin>>

\* the loop test fails: update returns
Return ==
  /\ pc = "loop"
  /\ ~LoopTest(accumulator)
  /\ pc' = "idle"
  /\ call' = NoCall
  /\ UNCHANGED <<player, accumulator, data, size, steps, elapsed, calls, pass, twin>>

\* Player.onKeyDown
KeyDown(code) ==
  /\ pc = "idle"
  /\ steps < MaxSteps
  /\ player' = CASE code = "KeyW" -> [player EXCEPT !.input.z = maxSpeed * Scale]
                 [] code = "KeyA" -> [player EXCEPT !.input.x = -maxSpeed * Scale]
                 [] code = "KeyS" -> [player EXCEPT !.input.z = -maxSpeed * Scale]
                 [] code = "KeyD" -> [player EXCEPT !.input.x = maxSpeed * Scale]
  /\ UNCHANGED <<accumulator, data, size, pc, steps, elapsed, calls, call, pass, twin>>

\* Player.onKeyUp
KeyUp(code) ==
  /\ pc = "idle"
  /\ steps < MaxSteps
  /\ player' = CASE code \in {"KeyW", "KeyS"} -> [player EXCEPT !.input.z = 0]
                 [] code \in {"KeyA", "KeyD"} -> [player EXCEPT !.input.x = 0]
  /\ UNCHANGED <<accumulator, data, size, pc, steps, elapsed, calls, call, pass, twin>>

\* The browser grants or takes the pointer lock that onKeyDown asked for.
PointerLockChange ==
  /\ pc = "idle"
  /\ steps < MaxSteps
  /\ player' = [player EXCEPT !.isLocked = ~player.isLocked]
  /\ UNCHANGED <<accumulator, data, size, pc, steps, elapsed, calls, call, pass, twin>>

\* gui.onChange: World.generate() rebuilds the grid. It runs between two
\* frames, and in the model only before the first fixed step.
Generate(g) ==
  /\ pc = "idle"
  /\ steps = 0
  /\ data' = GridData(size, g)
  /\ UNCHANGED <<player, accumulator, size, pc, steps, elapsed, calls, call, pass, twin>>

KeyCodes == {"KeyW", "KeyA", "KeyS", "KeyD"}

Next ==
  \/ \E dt \in 0..MaxDt : Update(dt)
  \/ Gravity
  \/ ApplyInputs
  \/ DetectCollisions
  \/ AccumulatorSub
  \/ Return
  \/ \E code \in KeyCodes : KeyDown(code)
  \/ \E code \in KeyCodes : KeyUp(code)
  \/ PointerLockChange
  \/ \E g \in Grids : Generate(g)

Spec == Init /\ [][Next]_vars

\* ------------------------------------------- two runs of the same world
\* The same world and actor simulated twice, update taken as a whole: the
\* run of the state variables and the run of twin are handed deltas
\* independently.  The input is fixed when the runs start.
MaxCalls == 2

StartControls ==
  {[input |-> Vec(0, 0, 0), isLocked |-> FALSE],
   [input |-> Vec(maxSpeed * Scale, 0, 0), isLocked |-> TRUE],
   [input |-> Vec(maxSpeed * Scale, 0, -maxSpeed * Scale), isLocked |-> TRUE]}

InitFR ==
  /\ InitWorld
  /\ \E x \in StartX, y \in StartY, z \in StartZ, c \in StartControls :
       player = [NewPlayer(Vec(x, y, z)) EXCEPT !.input = c.input, !.isLocked = c.isLocked]
  /\ InitRest

Sim == [player |-> player, accumulator |-> accumulator, steps |-> steps,
        elapsed |-> elapsed, calls |-> calls]

CanUpdate(sim, dt) ==
  /\ sim.calls < MaxCalls
  /\ sim.steps + ((sim.accumulator + dt) \div timestep) <= MaxSteps

UpdateA(dt) ==
  /\ CanUpdate(Sim, dt)
  /\ \E r \in {update(Sim, dt, data, size)} :
         /\ player' = r.player
         /\ accumulator' = r.accumulator
         /\ steps' = r.steps
         /\ elapsed' = r.elapsed
         /\ calls' = r.calls
  /\ UNCHANGED <<data, size, pc, call, pass, twin>>

UpdateB(dt) ==
  /\ CanUpdate(twin, dt)
  /\ twin' = update(twin, dt, data, size)
  /\ UNCHANGED <<player, accumulator, data, size, pc, steps, elapsed, calls, call, pass>>

NextFR ==
  \/ \E dt \in 0..MaxDt : UpdateA(dt)
  \/ \E dt \in 0..MaxDt : UpdateB(dt)

SpecFR == InitFR /\ [][NextFR]_vars

\* ---------------------------------------------------------------- claims

\* C1: whenever update has returned, 0 <= accumulator < timestep.
AccumulatorInRange ==
  pc = "idle" => (0 <= accumulator /\ accumulator < timestep)

\* update has returned after running fixed steps and keeps a remainder.
AccumulatorInRangeWitness ==
  pc = "idle" /\ steps >= 1 /\ accumulator > 0

Before == pass.before[1]
Epsilon == 2
StillInside(block, p) ==
  /\ pointInPlayerBoundingCylinder(ClosestPoint(block, p), p)
  /\ Collide(block, p).overlap > Epsilon

\* C4: after resolveCollisions has processed the records of a pass, the
\* narrow phase re-run at the corrected position reports no overlap above
\* epsilon for any block that was in the pass's collision list.
NonPenetration ==
  pass.ran => \A i \in DOMAIN pass.collisions :
                ~StillInside(pass.collisions[i].block, player)

\* The actor stands over the floor block of a grid that holds only that
\* block; the top face of the block; the actor's feet.
OverFloor(p) ==
  /\ data = GridData(size, {FloorCell})
  /\ Abs(p.position.x - FloorCell[1] * Scale) <= Scale \div 2
  /\ Abs(p.position.z - FloorCell[3] * Scale) <= Scale \div 2
FloorTop == FloorCell[2] * Scale + Scale \div 2
Feet(p) == p.position.y - height

PositiveOverlap ==
  pass.ran => \A i \in DOMAIN pass.collisions : pass.collisions[i].overlap > 0

\* The centre of the bounding cylinder.
Centre(p) == Vec(p.position.x, p.position.y - height \div 2, p.position.z)

\* C7: every collision record has a normal of unit length (to the rounding
\* of normalize) that points from the contact point toward the centre of
\* the actor's bounding cylinder.
UnitNormals ==
  pass.ran => \A i \in DOMAIN pass.collisions :
     LET c == pass.collisions[i]
         toCentre == Vec(Centre(Before).x - c.contactPoint.x,
                         Centre(Before).y - c.contactPoint.y,
                         Centre(Before).z - c.contactPoint.z)
     IN  /\ Abs(VLength(c.normal) - Scale) <= Epsilon
         /\ c.normal.x * toCentre.x + c.normal.y * toCentre.y
              + c.normal.z * toCentre.z >= 0

\* The narrow phase selects the vertical axis for a block at a player:
\* the closest point is inside the cylinder and overlapY < overlapXZ.
VerticalAt(block, p) ==
  LET c == ClosestPoint(block, p)
      dx == c.x - p.position.x
      dy == c.y - (p.position.y - height \div 2)
      dz == c.z - p.position.z
  IN  /\ Abs(dy) < height \div 2
      /\ dx * dx + dz * dz < radius * radius
      /\ height \div 2 - Abs(dy) < radius - Sqrt(dx * dx + dz * dz)

\* C8: at the end of a detection pass onGround is true iff a collision
\* record of the pass selected the vertical axis, whatever onGround was
\* when the pass began.
GroundedIffVertical ==
  pass.ran =>
    (player.onGround <=>
       \E i \in DOMAIN pass.collisions : VerticalAt(pass.collisions[i].block, Before))

\* a pass entered with onGround true that found only horizontal collisions
\* and left onGround false.
GroundedIffVerticalWitness ==
  /\ pass.ran
  /\ Before.onGround
  /\ ~player.onGround
  /\ Len(pass.collisions) > 0

\* The cells of the inclusive range of the broad phase at a player.
RangeCells(p) ==
  (Floor(p.position.x - radius)..Ceil(p.position.x + radius))
    \X (Floor(p.position.y - height)..Ceil(p.position.y))
    \X (Floor(p.position.z - radius)..Ceil(p.position.z + radius))
OccupiedIn(cells) == {c \in cells \cap DOMAIN data : data[c].id # emptyId}

\* C9: the candidates of a pass are exactly the cells of the inclusive
\* range that are inside the grid and hold a non-empty block, each once;
\* cells outside the grid are skipped.
BroadPhaseExact ==
  pass.ran =>
    /\ {<<pass.candidates[i].x, pass.candidates[i].y, pass.candidates[i].z>> :
           i \in DOMAIN pass.candidates} = OccupiedIn(RangeCells(Before))
    /\ Len(pass.candidates) = Cardinality(OccupiedIn(RangeCells(Before)))

\* a pass for an actor whose centre is outside the world, with cells of its
\* range outside the grid, that still found a candidate.
BroadPhaseExactWitness ==
  /\ pass.ran
  /\ Before.position.x < 0
  /\ RangeCells(Before) \ DOMAIN data # {}
  /\ Len(pass.candidates) >= 1

\* C10: a pass with no occupied cell of the grid in the actor's range has
\* no candidates and no collisions, leaves position and velocity as they
\* were and leaves onGround false.
EmptySpaceNoOp ==
  (pass.ran /\ OccupiedIn(RangeCells(Before)) = {}) =>
    /\ pass.candidates = <<>>
    /\ pass.collisions = <<>>
    /\ player.position = Before.position
    /\ player.velocity = Before.velocity
    /\ ~player.onGround

\* such a pass in a grid that has blocks elsewhere, after gravity and the
\* inputs have moved the actor.
EmptySpaceNoOpWitness ==
  /\ pass.ran
  /\ OccupiedIn(RangeCells(Before)) = {}
  /\ OccupiedIn(DOMAIN data) # {}
  /\ Before.position # twin.player.position
  /\ Before.velocity.y < 0

\* C11: no step of update (its entry, the steps of its loop, its return)
\* changes the grid (the block id and instance id of any cell) or the size
\* of the world, and none changes a field of the actor other than
\* position, velocity and onGround. The radius and the height of the
\* actor are constants of the model.
UpdateFrame ==
  [][(pc # "idle" \/ pc' # "idle") =>
       /\ data' = data
       /\ size' = size
       /\ player'.input = player.input
       /\ player'.isLocked = player.isLocked]_vars

\* an update has returned after a pass that moved the actor and set
\* onGround, in a grid with blocks.
UpdateFrameWitness ==
  /\ pc = "idle"
  /\ steps >= 1
  /\ player.onGround
  /\ player.position # twin.player.position
  /\ OccupiedIn(DOMAIN data) # {}

\* The occupied cells of the grid whose cube passes the containment test
\* of narrowPhase against the cylinder of p.
Overlapping(p) ==
  {c \in OccupiedIn(DOMAIN data) :
     pointInPlayerBoundingCylinder(ClosestPoint(Vec(c[1], c[2], c[3]), p), p)}

\* C12: every occupied cell of the grid whose cube passes the containment
\* test of narrowPhase against the actor's cylinder is among the
\* candidates of the broad phase.
BroadPhaseConservative ==
  pass.ran =>
    \A c \in Overlapping(Before) :
      \E i \in DOMAIN pass.candidates : pass.candidates[i] = Vec(c[1], c[2], c[3])

\* a pass with a cell that overlaps the cylinder and a candidate that does
\* not.
BroadPhaseConservativeWitness ==
  /\ pass.ran
  /\ Overlapping(Before) # {}
  /\ Len(pass.candidates) > Cardinality(Overlapping(Before))

\* The closest point of the cube of a cell to the centre of the cylinder of
\* p, as the offsets (dx, dy, dz) from that centre.
Clamp(v, lo, hi) == IF v < lo THEN lo ELSE IF v > hi THEN hi ELSE v
Offsets(cell, p) ==
  LET half == Scale \div 2
      cy == p.position.y - height \div 2
  IN  [dx |-> Clamp(p.position.x, cell.x * Scale - half, cell.x * Scale + half)
                - p.position.x,
       dy |-> Clamp(cy, cell.y * Scale - half, cell.y * Scale + half) - cy,
       dz |-> Clamp(p.position.z, cell.z * Scale - half, cell.z * Scale + half)
                - p.position.z]
Contained(cell, p) ==
  LET o == Offsets(cell, p)
  IN  Abs(o.dy) * 2 < height /\ o.dx * o.dx + o.dz * o.dz < radius * radius
OverlapY(cell, p) == height \div 2 - Abs(Offsets(cell, p).dy)
OverlapXZ(cell, p) ==
  LET o == Offsets(cell, p) IN radius - Sqrt(o.dx * o.dx + o.dz * o.dz)

\* C13: the records of a pass are, in the order of the candidates, one for
\* each candidate whose closest point is inside the cylinder and none for
\* the others; a record has the normal (0, -sign(dy), 0) and the overlap
\* overlapY when overlapY < overlapXZ, and the normalized (-dx, 0, -dz) and
\* the overlap overlapXZ otherwise, equality included.
NarrowPhaseRecords ==
  pass.ran =>
    LET hits == SelectSeq(pass.candidates, LAMBDA cell : Contained(cell, Before))
    IN  /\ Len(pass.collisions) = Len(hits)
        /\ \A i \in 1..Len(hits) :
             LET o == Offsets(hits[i], Before)
                 r == pass.collisions[i]
             IN  /\ r.block = hits[i]
                 /\ IF OverlapY(hits[i], Before) < OverlapXZ(hits[i], Before)
                    THEN /\ r.normal = Vec(0, -Sign(o.dy) * Scale, 0)
                         /\ r.overlap = OverlapY(hits[i], Before)
                    ELSE /\ r.normal = Normalize(Vec(-o.dx, 0, -o.dz))
                         /\ r.overlap = OverlapXZ(hits[i], Before)

\* a pass with a record whose two overlaps are equal and that took the
\* horizontal normal.
NarrowPhaseRecordsWitness ==
  /\ pass.ran
  /\ \E i \in DOMAIN pass.collisions :
       /\ OverlapY(pass.collisions[i].block, Before)
            = OverlapXZ(pass.collisions[i].block, Before)
       /\ pass.collisions[i].normal.y = 0
       /\ pass.collisions[i].normal # Vec(0, 0, 0)

\* Where narrowPhase pushed a record of the pass.
Discovered(r) == CHOOSE k \in DOMAIN pass.collisions : pass.collisions[k] = r

\* C14: resolveCollisions goes through every record of the pass exactly
\* once, in non-decreasing order of overlap, records of equal overlap in
\* the order narrowPhase pushed them; the player it leaves is the player
\* after the last of them.
ResolutionOrder ==
  pass.ran =>
    /\ Len(pass.order) = Len(pass.collisions)
    /\ \A k \in DOMAIN pass.collisions :
         Cardinality({i \in DOMAIN pass.order : pass.order[i] = pass.collisions[k]}) = 1
    /\ \A i, j \in DOMAIN pass.order :
         i < j =>
           /\ pass.order[i].overlap <= pass.order[j].overlap
           /\ pass.order[i].overlap = pass.order[j].overlap =>
                Discovered(pass.order[i]) < Discovered(pass.order[j])
    /\ Len(pass.trail) = Len(pass.order) + 1
    /\ player = pass.trail[Len(pass.trail)]

\* a pass with three records that narrowPhase pushed deepest first, two of
\* them with the same overlap.
ResolutionOrderWitness ==
  /\ pass.ran
  /\ Len(pass.collisions) >= 3
  /\ pass.collisions[1].overlap > pass.collisions[2].overlap
  /\ \E i, j \in DOMAIN pass.collisions :
       i # j /\ pass.collisions[i].overlap = pass.collisions[j].overlap

\* How far the squared length of a normal is from 1 (rounded up), and the
\* cross product of two vectors.
NormError(n) == Abs(Scale * Scale - (n.x * n.x + n.y * n.y + n.z * n.z)) \div Scale + 1
Cross(u, v) ==
  Vec(u.y * v.z - u.z * v.y, u.z * v.x - u.x * v.z, u.x * v.y - u.y * v.x)

\* One collision c takes the player from p to q: the position moves by
\* normal * overlap; the velocity of q has no component along the normal,
\* to the rounding of the normal's length and of the products; and the
\* change of velocity is along the normal, so the components orthogonal
\* to it are as they were.
Resolved(c, p, q) ==
  LET dv == Vec(q.velocity.x - p.velocity.x, q.velocity.y - p.velocity.y,
                q.velocity.z - p.velocity.z)
      turn == Cross(dv, c.normal)
  IN  /\ q.position.x = p.position.x + RoundDiv(c.normal.x * c.overlap, Scale)
      /\ q.position.y = p.position.y + RoundDiv(c.normal.y * c.overlap, Scale)
      /\ q.position.z = p.position.z + RoundDiv(c.normal.z * c.overlap, Scale)
      /\ Abs(VDot(q.velocity, c.normal))
           <= (Abs(VDot(p.velocity, c.normal)) * NormError(c.normal)) \div Scale + Epsilon
      /\ Abs(turn.x) <= Scale /\ Abs(turn.y) <= Scale /\ Abs(turn.z) <= Scale

\* C15: each collision resolveCollisions processes moves the position by
\* normal * overlap, with the overlap of the narrow phase, and leaves a
\* velocity with no component along that normal and with its components
\* orthogonal to the normal unchanged.
ResolutionEffect ==
  pass.ran =>
    \A k \in DOMAIN pass.order :
      Resolved(pass.order[k], pass.trail[k], pass.trail[k + 1])

\* a pass that resolved a collision of positive overlap while the actor
\* moved into the normal and along the surface.
ResolutionEffectWitness ==
  /\ pass.ran
  /\ \E k \in DOMAIN pass.order :
       /\ pass.order[k].overlap > 0
       /\ VDot(pass.trail[k].velocity, pass.order[k].normal) < 0
       /\ pass.trail[k + 1].velocity # Vec(0, 0, 0)
       /\ pass.trail[k + 1].velocity # pass.trail[k].velocity

\* C16: when onGround is true at the end of a pass, a record of the pass
\* has the upward normal (0, 1, 0): the actor stands on a face below its
\* vertical centre, and a record with the normal (0, -1, 0) of a block
\* above it does not set onGround by itself.
GroundedMeansStanding ==
  (pass.ran /\ player.onGround) =>
    \E i \in DOMAIN pass.collisions : pass.collisions[i].normal = Vec(0, Scale, 0)

====
